---- MODULE Spec2Model ----
(***************************************************************************)
(* Model of ios-master-skills/tools/swift_syntax_analyzer.py.              *)
(*                                                                         *)
(* Text is a sequence of one-character strings.  Offsets are 0-based as   *)
(* in the Python source: offset i names the character text[i+1].  The     *)
(* regular expressions of the source are kept as data (a sequence of      *)
(* items) and matched by a backtracking matcher that tries alternatives   *)
(* in the order Python's re module tries them.                            *)
(***************************************************************************)
EXTENDS Integers, Sequences, FiniteSets, TLC

VARIABLES request, pc, code, violations, origin, result, stdout, exit_code,
          calls, first, runs

vars == <<request, pc, code, violations, origin, result, stdout, exit_code,
          calls, first, runs>>

(***************************************************************************)
(* Bounds of the model.                                                    *)
(***************************************************************************)
\* Longest input, counted in fragments of the input families below.
MaxFrags == 3
\* Calls a direct caller makes: of analyze_swift_code on the same text, or of
\* the methods of one analyzer.
MaxCalls == 2

(***************************************************************************)
(* Characters and character classes of re.  The patterns are str patterns  *)
(* without re.ASCII, so the classes are those of Unicode.  A string of     *)
(* this module holds the characters U+0000 to U+00FF; the sets below are   *)
(* the members of each class among these.  Surrogate stands for one        *)
(* character beyond them that is in none of the classes \s, \d and \w.     *)
(***************************************************************************)
\* \d: the decimal digits
Digits == {"0", "1", "2", "3", "4", "5", "6", "7", "8", "9"}

\* the letters: the ASCII ones and those of U+00AA to U+00FF
Letters ==
  {"a", "b", "c", "d", "e", "f", "g", "h", "i", "j", "k", "l", "m", "n", "o", "p", "q", "r", "s", "t", "u", "v", "w", "x", "y", "z", "A", "B", "C", "D", "E", "F", "G", "H", "I", "J", "K", "L", "M", "N", "O", "P", "Q", "R", "S", "T", "U", "V", "W", "X", "Y", "Z"}
  \cup {"ª", "µ", "º", "À", "Á", "Â", "Ã", "Ä", "Å", "Æ", "Ç", "È", "É", "Ê", "Ë", "Ì", "Í", "Î", "Ï"}
  \cup {"Ð", "Ñ", "Ò", "Ó", "Ô", "Õ", "Ö", "Ø", "Ù", "Ú", "Û", "Ü", "Ý", "Þ", "ß"}
  \cup {"à", "á", "â", "ã", "ä", "å", "æ", "ç", "è", "é", "ê", "ë", "ì", "í", "î", "ï"}
  \cup {"ð", "ñ", "ò", "ó", "ô", "õ", "ö", "ø", "ù", "ú", "û", "ü", "ý", "þ", "ÿ"}

\* the numeric characters that \w matches and \d does not: superscript
\* digits and fractions
Numerics == {"²", "³", "¹", "¼", "½", "¾"}

\* \s: tab, line feed, vertical tab, form feed, carriage return, U+001C to
\* U+001F, space, U+0085 and U+00A0
Spaces == {"\t", "\n", "", "\f", "\r", "", "", "", "", " ", "", " "}

\* a lone surrogate, U+DC80 to U+DCFF: what a byte of stdin that is not text
\* becomes where stdin decodes with surrogateescape
Surrogate == "U+DCFF"

\* cls names a class: "s" is \s, "d" is \d, "dd" is [\d.], "w" is \w,
\* "dot" is . (no newline; re.MULTILINE does not change it), "any" is [\s\S],
\* "eq" is [=]
InClass(cls, c) ==
  CASE cls = "s"   -> c \in Spaces
    [] cls = "d"   -> c \in Digits
    [] cls = "dd"  -> c \in Digits \cup {"."}
    [] cls = "w"   -> c \in Letters \cup Numerics \cup Digits \cup {"_"}
    [] cls = "dot" -> c # "\n"
    [] cls = "any" -> TRUE
    [] cls = "eq"  -> c = "="

\* text[i:i+len(s)] == s
StartsWith(text, i, s) ==
  /\ i >= 0
  /\ i + Len(s) <= Len(text)
  /\ \A k \in 1..Len(s) : text[i + k] = s[k]

\* text[a:b]
Slice(text, a, b) == SubSeq(text, a + 1, b)

\* s in text
Contains(text, s) == \E i \in 0..(Len(text) - Len(s)) : StartsWith(text, i, s)

\* the least member of a non-empty set of integers
MinOf(set) == CHOOSE x \in set : \A y \in set : x <= y

\* the greatest member of a non-empty set of integers
MaxOf(set) == CHOOSE x \in set : \A y \in set : x >= y

\* text.find(s, lo): the lowest offset >= lo at which s occurs, or -1
Find(text, s, lo) ==
  LET occ == {j \in lo..(Len(text) - Len(s)) : StartsWith(text, j, s)}
  IN  IF occ = {} THEN -1 ELSE MinOf(occ)

\* text.rfind(s, 0, hi): the highest offset at which s occurs inside text[0:hi], or -1
RFind(text, s, hi) ==
  LET occ == {j \in 0..(hi - Len(s)) : StartsWith(text, j, s)}
  IN  IF occ = {} THEN -1 ELSE MaxOf(occ)

\* text.count('\n')
CountNewlines(text) == Cardinality({j \in 1..Len(text) : text[j] = "\n"})

\* self.code[:match.start()].count('\n') + 1
LineOf(text, start) == CountNewlines(Slice(text, 0, start)) + 1

\* the number of consecutive characters of class cls from offset i on
RunLen(cls, text, i) ==
  IF cls = "any" THEN Len(text) - i
  ELSE CHOOSE n \in 0..(Len(text) - i) :
         /\ i + n = Len(text) \/ ~InClass(cls, text[i + n + 1])
         /\ \A j \in 1..n : InClass(cls, text[i + j])

(***************************************************************************)
(* Regular expressions as data.                                            *)
(***************************************************************************)
Lit(s) == [k |-> "lit", s |-> s]
\* cls* and cls+ (min 0 or 1), greedy or lazy
Rep(cls, min, greedy) == [k |-> "rep", cls |-> cls, min |-> min, greedy |-> greedy]
\* (?:a|b)
Alt(opts) == [k |-> "alt", opts |-> opts]
\* (?<!s)
NotBehind(s) == [k |-> "nlb", s |-> s]
\* (?![...])
NotAhead(cls) == [k |-> "nla", cls |-> cls]

Last(seq) == seq[Len(seq)]

(***************************************************************************)
(* The matcher.  MatchTable(re, k, text) is the table, over every offset i *)
(* of the text (entry i + 1), of how items k.. of re match at i: the       *)
(* offsets at which each of these items begins followed by the offset at   *)
(* which the match ends, for the first way of matching that backtracking   *)
(* finds (a greedy repetition tries its longest run first, a lazy one its  *)
(* shortest, an alternation its options left to right), or <<>> when the   *)
(* items do not match at i.  Whether the rest of a pattern matches depends *)
(* only on the item and the offset, so the table of items k.. is computed  *)
(* from the table of items k+1.. .                                         *)
(***************************************************************************)
\* entry of item k at offset i, given the table of the items after it
ItemAt(it, text, i, next) ==
  CASE it.k = "lit" ->
         IF StartsWith(text, i, it.s) /\ next[i + Len(it.s) + 1] # <<>>
         THEN <<i>> \o next[i + Len(it.s) + 1]
         ELSE <<>>
    [] it.k = "rep" ->
         LET run  == RunLen(it.cls, text, i)
             good == {n \in it.min..run : next[i + n + 1] # <<>>}
         IN  IF good = {} THEN <<>>
             ELSE <<i>> \o next[i + (IF it.greedy THEN MaxOf(good) ELSE MinOf(good)) + 1]
    [] it.k = "alt" ->
         LET good == {n \in 1..Len(it.opts) :
                        /\ StartsWith(text, i, it.opts[n])
                        /\ next[i + Len(it.opts[n]) + 1] # <<>>}
         IN  IF good = {} THEN <<>>
             ELSE <<i>> \o next[i + Len(it.opts[MinOf(good)]) + 1]
    [] it.k = "nlb" ->
         IF StartsWith(text, i - Len(it.s), it.s) \/ next[i + 1] = <<>>
         THEN <<>>
         ELSE <<i>> \o next[i + 1]
    [] it.k = "nla" ->
         IF (i < Len(text) /\ InClass(it.cls, text[i + 1])) \/ next[i + 1] = <<>>
         THEN <<>>
         ELSE <<i>> \o next[i + 1]

\* no item matches anywhere once the items after it match nowhere
RECURSIVE MatchTable(_, _, _)
MatchTable(re, k, text) ==
  IF k > Len(re) THEN [j \in 1..(Len(text) + 1) |-> <<j - 1>>]
  ELSE LET next == MatchTable(re, k + 1, text)
       IN  IF \A j \in 1..(Len(text) + 1) : next[j] = <<>>
           THEN next
           ELSE [j \in 1..(Len(text) + 1) |-> ItemAt(re[k], text, j - 1, next)] \o <<>>

\* re.finditer over a table of the whole pattern, from offset i on: the
\* non-overlapping matches, leftmost first, each as [start, end, b] with b the
\* offsets at which the items begin
RECURSIVE FindIterFrom(_, _)
FindIterFrom(table, i) ==
  LET starts == {j \in i..(Len(table) - 1) : table[j + 1] # <<>>}
  IN  IF starts = {} THEN <<>>
      ELSE LET s == MinOf(starts)
               b == table[s + 1]
           IN  <<[start |-> s, end |-> Last(b), b |-> b]>>
               \o FindIterFrom(table, IF Last(b) > s THEN Last(b) ELSE s + 1)

\* re.finditer(pattern, text)
finditer(re, text) == FindIterFrom(MatchTable(re, 1, text), 0)

\* re.search(pattern, text) is not None
search(re, text) == finditer(re, text) # <<>>

\* match.group(1), the text of item g
Group(text, m, g) == Slice(text, m.b[g], m.b[g + 1])

(***************************************************************************)
(* The patterns of the source.                                             *)
(***************************************************************************)
\* r'\.frame\(width:\s*(\d+)\)'
PatFrameWidth ==
  << Lit(<<".","f","r","a","m","e","(","w","i","d","t","h",":">>), Rep("s", 0, TRUE), Rep("d", 1, TRUE), Lit(<<")">>) >>

\* r'\.frame\(height:\s*(\d+)\)'
PatFrameHeight ==
  << Lit(<<".","f","r","a","m","e","(","h","e","i","g","h","t",":">>), Rep("s", 0, TRUE), Rep("d", 1, TRUE), Lit(<<")">>) >>

\* r'Color\(red:\s*[\d.]+'
PatColorRed == << Lit(<<"C","o","l","o","r","(","r","e","d",":">>), Rep("s", 0, TRUE), Rep("dd", 1, TRUE) >>

\* r'Color\(\.sRGB,\s*red:'
PatColorSRGB == << Lit(<<"C","o","l","o","r","(",".","s","R","G","B",",">>), Rep("s", 0, TRUE), Lit(<<"r","e","d",":">>) >>

\* r'Color\(hue:\s*[\d.]+'
PatColorHue == << Lit(<<"C","o","l","o","r","(","h","u","e",":">>), Rep("s", 0, TRUE), Rep("dd", 1, TRUE) >>

\* r'UIColor\(red:\s*[\d.]+'
PatUIColorRed == << Lit(<<"U","I","C","o","l","o","r","(","r","e","d",":">>), Rep("s", 0, TRUE), Rep("dd", 1, TRUE) >>

\* r'\.font\(\.system\(size:\s*(\d+)\)'
PatFont ==
  << Lit(<<".","f","o","n","t","(",".","s","y","s","t","e","m","(","s","i","z","e",":">>), Rep("s", 0, TRUE), Rep("d", 1, TRUE), Lit(<<")">>) >>

\* mutant: r'(?<!try)!\s*', the '=' behind the '!' is not looked at
PatForceUnwrap_noahead ==
  << NotBehind(<<"t","r","y">>), Lit(<<"!">>), Rep("s", 0, TRUE) >>

\* r'(?<!try)!\s*(?![=])'
PatForceUnwrap ==
  << NotBehind(<<"t","r","y">>), Lit(<<"!">>), Rep("s", 0, TRUE), NotAhead("eq") >>

\* r'Button\(.*?\)\s*\{[\s\S]*?\}[\s\S]*?\.frame\(.*?(?:width|height):\s*(\d+)\)'
PatTouch ==
  << Lit(<<"B","u","t","t","o","n","(">>), Rep("dot", 0, FALSE), Lit(<<")">>), Rep("s", 0, TRUE),
     Lit(<<"{">>), Rep("any", 0, FALSE), Lit(<<"}">>), Rep("any", 0, FALSE),
     Lit(<<".","f","r","a","m","e","(">>), Rep("dot", 0, FALSE), Alt(<<<<"w","i","d","t","h">>, <<"h","e","i","g","h","t">>>>),
     Lit(<<":">>), Rep("s", 0, TRUE), Rep("d", 1, TRUE), Lit(<<")">>) >>

\* r'class\s+\w+ViewModel'
PatViewModel ==
  << Lit(<<"c","l","a","s","s">>), Rep("s", 1, TRUE), Rep("w", 1, TRUE), Lit(<<"V","i","e","w","M","o","d","e","l">>) >>

\* r'enum\s+State\s*\{'
PatStateEnum ==
  << Lit(<<"e","n","u","m">>), Rep("s", 1, TRUE), Lit(<<"S","t","a","t","e">>), Rep("s", 0, TRUE), Lit(<<"{">>) >>

\* r'Button\('
PatButton == << Lit(<<"B","u","t","t","o","n","(">>) >>

(***************************************************************************)
(* SwiftAnalyzer.  An analyzer is [code, violations, origin]: origin is a  *)
(* history field, not in the source, that records for every violation the  *)
(* pattern (numbered in the order the check scans them) and the start      *)
(* offset of the match that produced it (-1 when no match did).            *)
(***************************************************************************)
\* the order in which analyze runs the checks
RuleOrder ==
  << "hardcoded_frame_size", "hardcoded_color", "hardcoded_font_size",
     "force_unwrapping", "touch_target_too_small", "missing_viewmodel_state",
     "missing_accessibility_label" >>

\* SwiftAnalyzer.__init__: prior is what the violations list held before
SwiftAnalyzer(text, prior) == [code |-> text, violations |-> <<>>, origin |-> <<>>]

\* add_violation; line is <<>> for None and <<n>> for line n
add_violation(self, severity, rule, message, line, pat, start) ==
  LET base == [severity |-> severity, rule |-> rule, message |-> message]
      violation == IF line # <<>>
                   THEN [severity |-> severity, rule |-> rule, message |-> message,
                         line |-> line[1]]
                   ELSE base
  IN  [self EXCEPT !.violations = Append(@, violation),
                   !.origin = Append(@, [rule |-> rule, pat |-> pat, start |-> start])]

WARNING == "warning"
ERROR == "error"

\* for match in matches: ... (one pattern of check_hardcoded_frame_sizes)
RECURSIVE frame_loop(_, _, _, _)
frame_loop(self, matches, description, pat) ==
  IF matches = <<>> THEN self
  ELSE LET match == Head(matches)
           size == Group(self.code, match, 3)
           line_num == LineOf(self.code, match.start)
       IN  frame_loop(
             add_violation(self, WARNING, "hardcoded_frame_size",
               <<description, ": ", size,
                 "pt. Consider using minWidth/minHeight or semantic tokens.">>,
               <<line_num>>, pat, match.start),
             Tail(matches), description, pat)

\* mutant: the heights are scanned before the widths
check_hardcoded_frame_sizes_swapped(self) ==
  LET after_height == frame_loop(self, finditer(PatFrameHeight, self.code),
                                 "Hardcoded frame height", 2)
  IN  frame_loop(after_height, finditer(PatFrameWidth, self.code),
                 "Hardcoded frame width", 1)

check_hardcoded_frame_sizes(self) ==
  LET after_width == frame_loop(self, finditer(PatFrameWidth, self.code),
                                "Hardcoded frame width", 1)
  IN  frame_loop(after_width, finditer(PatFrameHeight, self.code),
                 "Hardcoded frame height", 2)

\* for match in matches: ... (one pattern of check_hardcoded_colors)
RECURSIVE color_loop(_, _, _)
color_loop(self, matches, pat) ==
  IF matches = <<>> THEN self
  ELSE LET match == Head(matches)
           line_num == LineOf(self.code, match.start)
       IN  color_loop(
             add_violation(self, WARNING, "hardcoded_color",
               <<"Hardcoded RGB/HSB color. Use semantic colors (e.g., .primary, .systemBackground) or Asset Catalog colors.">>,
               <<line_num>>, pat, match.start),
             Tail(matches), pat)

ColorPatterns == <<PatColorRed, PatColorSRGB, PatColorHue, PatUIColorRed>>

\* for pattern in patterns: ...
RECURSIVE color_patterns_loop(_, _)
color_patterns_loop(self, n) ==
  IF n > Len(ColorPatterns) THEN self
  ELSE color_patterns_loop(
         color_loop(self, finditer(ColorPatterns[n], self.code), n), n + 1)

check_hardcoded_colors(self) == color_patterns_loop(self, 1)

RECURSIVE font_loop(_, _)
font_loop(self, matches) ==
  IF matches = <<>> THEN self
  ELSE LET match == Head(matches)
           size == Group(self.code, match, 3)
           line_num == LineOf(self.code, match.start)
       IN  font_loop(
             add_violation(self, WARNING, "hardcoded_font_size",
               <<"Hardcoded font size: ", size,
                 "pt. Use semantic text styles (e.g., .body, .headline) for Dynamic Type support.">>,
               <<line_num>>, 1, match.start),
             Tail(matches))

check_hardcoded_fonts(self) == font_loop(self, finditer(PatFont, self.code))

\* mutant: a '//' anywhere before the match suppresses it, whatever its line
in_comment_anyline(text, start) == Contains(Slice(text, 0, start), <<"/","/">>)

\* lines 109-113: the match at offset start lies behind a '//' of its line
in_comment(text, start) ==
  LET line_start == RFind(text, <<"\n">>, start) + 1
      line_end == Find(text, <<"\n">>, start)
      line == IF line_end # -1 THEN Slice(text, line_start, line_end)
              ELSE Slice(text, line_start, Len(text))
  IN  /\ Contains(line, <<"/","/">>)
      /\ Find(line, <<"/","/">>, 0) < start - line_start

RECURSIVE unwrap_loop(_, _)
unwrap_loop(self, matches) ==
  IF matches = <<>> THEN self
  ELSE LET match == Head(matches) IN
       IF in_comment(self.code, match.start)
       THEN unwrap_loop(self, Tail(matches))
       ELSE unwrap_loop(
              add_violation(self, ERROR, "force_unwrapping",
                <<"Force unwrapping (!) can cause crashes. Use optional binding (if let, guard let) or nil coalescing (??) instead.">>,
                <<LineOf(self.code, match.start)>>, 1, match.start),
              Tail(matches))

check_force_unwrapping(self) ==
  unwrap_loop(self, finditer(PatForceUnwrap, self.code))

DigitChars == <<"0","1","2","3","4","5","6","7","8","9">>

DigitVal(c) == (CHOOSE d \in 1..10 : DigitChars[d] = c) - 1

\* the value of a string of decimal digits
RECURSIVE ParseInt(_)
ParseInt(s) ==
  IF s = <<>> THEN 0
  ELSE ParseInt(SubSeq(s, 1, Len(s) - 1)) * 10 + DigitVal(s[Len(s)])

\* the most digits int() converts (sys.get_int_max_str_digits())
int_max_str_digits == 4300

\* int(s) raises ValueError: s has more digits than int() converts, leading
\* zeros counted
int_raises(s) == Len(s) > int_max_str_digits

\* int(s), kept as its decimal numeral, which is how the message shows it:
\* the digits of s without the leading zeros
Numeral(s) ==
  LET nonzero == {j \in 1..Len(s) : s[j] # "0"}
  IN  IF nonzero = {} THEN <<"0">> ELSE SubSeq(s, MinOf(nonzero), Len(s))

\* int(s) < bound, for a bound of at most nine digits: a numeral of more
\* digits is not below it
IntLess(s, bound) ==
  LET num == Numeral(s) IN Len(num) <= 9 /\ ParseInt(num) < bound

\* mutant: a target of exactly 44 is reported too
MinTouchTargetInclusive == 44 + 1

\* the least size a touch target may have (line 132)
MinTouchTarget == 44

\* for match in matches: ...; the loop is left when int() raises
RECURSIVE touch_loop(_, _)
touch_loop(self, matches) ==
  IF matches = <<>> THEN self
  ELSE LET match == Head(matches)
           digits == Group(self.code, match, 14)
       IN  IF int_raises(digits) THEN self
           ELSE IF IntLess(digits, MinTouchTarget)
           THEN touch_loop(
                  add_violation(self, ERROR, "touch_target_too_small",
                    <<"Touch target size is ", Numeral(digits),
                      "pt, which is below the minimum 44pt. Use .frame(minWidth: 44, minHeight: 44) or add .contentShape(Rectangle()).">>,
                    <<LineOf(self.code, match.start)>>, 1, match.start),
                  Tail(matches))
           ELSE touch_loop(self, Tail(matches))

\* the analyzer when check_touch_target_sizes returns or raises
check_touch_target_sizes(self) ==
  touch_loop(self, finditer(PatTouch, self.code))

\* check_touch_target_sizes raises ValueError: int() does, at some match
check_touch_target_sizes_raises(self) ==
  LET matches == finditer(PatTouch, self.code)
  IN  \E n \in 1..Len(matches) : int_raises(Group(self.code, matches[n], 14))

\* mutant: the check reports with a third severity
check_viewmodel_state_enum_info(self) ==
  IF ~search(PatViewModel, self.code) THEN self
  ELSE IF ~search(PatStateEnum, self.code)
  THEN [self EXCEPT !.violations =
                      Append(@, [severity |-> "info", rule |-> "missing_viewmodel_state",
                                 message |-> <<"ViewModel should expose a State enum">>]),
                    !.origin =
                      Append(@, [rule |-> "missing_viewmodel_state", pat |-> 1,
                                 start |-> -1])]
  ELSE self

check_viewmodel_state_enum(self) ==
  IF ~search(PatViewModel, self.code) THEN self
  ELSE IF ~search(PatStateEnum, self.code)
  THEN add_violation(self, WARNING, "missing_viewmodel_state",
         <<"ViewModel should expose a State enum (e.g., idle, loading, content, error) for state management.">>,
         <<>>, 1, -1)
  ELSE self

\* the characters after button_end that the snippet may reach (line 183)
LabelWindow == 200

\* one pass of the loop of lines 172-180 at offset i; st.done is the break
brace_step(text, st, i) ==
  IF text[i + 1] = "{"
  THEN [st EXCEPT !.brace_count = @ + 1, !.in_button = TRUE, !.visited = @ + 1]
  ELSE IF text[i + 1] = "}"
  THEN IF st.in_button /\ st.brace_count - 1 = 0
       THEN [st EXCEPT !.brace_count = @ - 1, !.button_end = i, !.done = TRUE,
                       !.visited = @ + 1]
       ELSE [st EXCEPT !.brace_count = @ - 1, !.visited = @ + 1]
  ELSE [st EXCEPT !.visited = @ + 1]

\* for i in range(lo, hi + 1), in order and stopping at the break (the range
\* is halved to keep the nesting of the evaluation shallow)
RECURSIVE brace_loop(_, _, _, _)
brace_loop(text, st, lo, hi) ==
  IF st.done \/ lo > hi THEN st
  ELSE IF lo = hi THEN brace_step(text, st, lo)
  ELSE LET mid == (lo + hi) \div 2
       IN  brace_loop(text, brace_loop(text, st, lo, mid), mid + 1, hi)

\* lines 167-180: the scan for the closing brace of the button at start;
\* visited counts the passes of the loop
brace_scan(text, start) ==
  brace_loop(text,
             [brace_count |-> 0, in_button |-> FALSE, button_end |-> start,
              done |-> FALSE, visited |-> 0],
             start, Len(text) - 1)

Min2(a, b) == IF a < b THEN a ELSE b

\* line 183
snippet_of(text, start) ==
  Slice(text, start, Min2(brace_scan(text, start).button_end + LabelWindow, Len(text)))

RECURSIVE access_loop(_, _)
access_loop(self, button_matches) ==
  IF button_matches = <<>> THEN self
  ELSE LET match == Head(button_matches)
           snippet == snippet_of(self.code, match.start)
       IN  IF Contains(snippet, <<"I","m","a","g","e","(">>) /\ ~Contains(snippet, <<".","a","c","c","e","s","s","i","b","i","l","i","t","y","L","a","b","e","l">>)
           THEN access_loop(
                  add_violation(self, WARNING, "missing_accessibility_label",
                    <<"Image-only button should have .accessibilityLabel() for VoiceOver support.">>,
                    <<LineOf(self.code, match.start)>>, 1, match.start),
                  Tail(button_matches))
           ELSE access_loop(self, Tail(button_matches))

check_accessibility_labels(self) ==
  access_loop(self, finditer(PatButton, self.code))

\* len([v for v in violations if v["severity"] == severity])
CountSeverity(vs, severity) ==
  Cardinality({n \in 1..Len(vs) : vs[n].severity = severity})

\* the value analyze_swift_code returns (lines 201-209)
analysis_result(vs) ==
  [status |-> "success",
   violations |-> vs,
   summary |-> [total |-> Len(vs),
                errors |-> CountSeverity(vs, "error"),
                warnings |-> CountSeverity(vs, "warning")]]

(***************************************************************************)
(* Inputs.  A text is the concatenation of at most MaxFrags fragments of   *)
(* one family; each family holds the constructs one group of checks looks  *)
(* for.                                                                    *)
(***************************************************************************)
RECURSIVE Flatten(_)
Flatten(frags) == IF frags = <<>> THEN <<>> ELSE Head(frags) \o Flatten(Tail(frags))

\* every concatenation of at most MaxFrags fragments of the family
TextsOver(family) ==
  UNION {{Flatten(fs) : fs \in [1..n -> family]} : n \in 0..MaxFrags}

Pad(n) == [j \in 1..n |-> "-"]

FragsMixed ==
  { <<".","f","r","a","m","e","(","w","i","d","t","h",":"," ","5",")">>, <<".","f","r","a","m","e","(","h","e","i","g","h","t",":","5","0",")">>, <<"C","o","l","o","r","(","h","u","e",":"," ","0",".","5">>,
    <<"U","I","C","o","l","o","r","(","r","e","d",":"," ","1">>, <<".","f","o","n","t","(",".","s","y","s","t","e","m","(","s","i","z","e",":"," ","1","8",")",")">>, <<"x","!">>,
    <<"B","u","t","t","o","n","(","a",")","{","I","m","a","g","e","(","i",")","}">>, <<"c","l","a","s","s"," ","A","V","i","e","w","M","o","d","e","l">>, <<"\n">> }

FragsUnwrap ==
  { <<"x">>, <<"!">>, <<"=">>, <<" ">>, <<"t","r","y">>, <<"/","/">>, <<"\n">>, <<"/","/"," ","y","!">> }

FragsTouch ==
  { <<"B","u","t","t","o","n","(","a",")","","\r","{">>, <<"B","u","t","t","o","n","(","b",")","{","t","}">>, <<"}">>, <<".","f","r","a","m","e","(","w","i","d","t","h",":"," ","3","0",")">>,
    <<".","f","r","a","m","e","(","h","e","i","g","h","t",":","4","4",")">>, <<".","f","r","a","m","e","(","w","i","d","t","h",":"," ","0","4","3",")">>, <<"\n">>, <<")">> }

FragsViewModel ==
  { <<"c","l","a","s","s"," ","A">>, <<"c","l","a","s","s"," ">>, <<"s","t","r","u","c","t"," ","A">>, <<"V","i","e","w","M","o","d","e","l">>, <<"B">>, <<"é">>,
    <<" ","e","n","u","m"," ","S","t","a","t","e"," ","{">>, <<" ","e","n","u","m","\t","","\r","\n","S","t","a","t","e","\f"," ","{">>, <<" ","e","n","u","m"," ","S","t","a","t","u","s"," ","{">> }

FragsAccess ==
  { <<"B","u","t","t","o","n","(","a",")","{">>, <<"B","u","t","t","o","n","(","b",")","{","I","m","a","g","e","(","i",")">>, <<"}">>, <<"{">>, <<"I","m","a","g","e","(","j",")">>,
    <<".","a","c","c","e","s","s","i","b","i","l","i","t","y","L","a","b","e","l","(","l",")">>, <<"}">> \o Pad(180), <<"}">> \o Pad(181),
    Pad(LabelWindow), <<"\n">> }

\* what main may find on stdin, and what a direct caller does:
\*   stdin_undecodable  bytes that are not text in the encoding of stdin,
\*                      outside the strings of the JSON
\*   code_bytes         an object whose "code" is a string that holds such a
\*                      byte: the text in field code with the byte at offset
\*                      at, which is its begin, its middle or its end
\*   other_bytes        an object whose "code" is the string in field code
\*                      and that holds such a byte in another of its strings
\*   invalid_json       text that json.loads rejects with JSONDecodeError
\*   json_too_deep      text nested so deep that json.loads raises RecursionError
\*   json_big_int       JSON with an integer literal of more digits than int()
\*                      converts: json.loads raises ValueError, whatever the
\*                      request holds besides
\*   not_object         JSON, but not an object (request.get does not exist)
\*   no_code            an object without "code"
\*   code_falsy         "code" is null, 0, false, [] or {}
\*   code_other         "code" is a non-empty value that is not a string
\*   code_string        "code" is the string in field code
\*   direct             analyze_swift_code(code) called as a function
\*   direct_other       analyze_swift_code(code) called with a code that is not
\*                      a string
\*   instance           SwiftAnalyzer(code) made by the caller, who then calls
\*                      its methods
\*   instance_other     the same on a code that is not a string
RequestsOver(texts) ==
  {[kind |-> k, code |-> <<>>, at |-> 0] :
     k \in {"stdin_undecodable", "invalid_json", "json_too_deep", "json_big_int",
            "not_object", "no_code", "code_falsy", "code_other", "direct_other",
            "instance_other"}}
  \cup {[kind |-> k, code |-> t, at |-> 0] :
          k \in {"code_string", "other_bytes", "direct", "instance"}, t \in texts}
  \cup UNION {{[kind |-> "code_bytes", code |-> t, at |-> p] :
                  p \in {0, Len(t) \div 2, Len(t)}} : t \in texts}

\* the requests that come in through main
MainKinds ==
  {"stdin_undecodable", "invalid_json", "json_too_deep", "json_big_int",
   "not_object", "no_code", "code_falsy", "code_other", "code_string",
   "code_bytes", "other_bytes"}

\* the requests whose code is not a string
OtherKinds == {"code_other", "direct_other", "instance_other"}

\* the requests of a caller with an analyzer of its own
InstanceKinds == {"instance", "instance_other"}

\* the code the analyzer is made on (a code that is not a string is not
\* looked into: every use of it raises)
code_of(req) ==
  IF req.kind = "code_bytes"
  THEN Slice(req.code, 0, req.at) \o <<Surrogate>>
       \o Slice(req.code, req.at, Len(req.code))
  ELSE req.code

NoResult == [status |-> "none"]

NoRuns == [analyze |-> 0, other |-> 0, raised |-> 0]

(***************************************************************************)
(* The state machine.  runs counts the calls made so far on the analyzer   *)
(* at hand, those of analyze and those of its other methods, and how many  *)
(* of them raised, a history variable.  first keeps what the list held     *)
(* when the first call returned, a history variable as well.               *)
(***************************************************************************)
InitOver(texts) ==
  /\ request \in RequestsOver(texts)
  /\ pc = IF request.kind \in {"direct", "direct_other"} THEN "call"
          ELSE IF request.kind \in InstanceKinds THEN "new"
          ELSE "main"
  /\ code = <<>>
  /\ violations = <<>>
  /\ origin = <<>>
  /\ result = NoResult
  /\ stdout = <<>>
  /\ exit_code = 0
  /\ calls = 0
  /\ first = NoResult
  /\ runs = NoRuns

Init == InitOver(TextsOver(FragsMixed))

self == [code |-> code, violations |-> violations, origin |-> origin]

\* the analyzer after a check, written back to the variables
Becomes(after, next_pc) ==
  /\ violations' = after.violations
  /\ origin' = after.origin
  /\ pc' = next_pc
  /\ UNCHANGED <<request, code, result, stdout, exit_code, calls, first, runs>>

\* an exception leaves the check, which has made the analyzer what after is
RaisesWith(after) == Becomes(after, "raise")

\* an exception leaves the check before it has appended anything
Raises == RaisesWith(self)

InvalidJsonPayload ==
  [status |-> "error", message |-> <<"Invalid JSON input: ", "str(e)">>]
AnalysisFailedPayload ==
  [status |-> "error", message |-> <<"Analysis failed: ", "str(e)">>]
NoCodePayload ==
  [status |-> "error", message |-> <<"No Swift code provided for analysis.">>]

\* request.get("code", "") is falsy
code_is_falsy(req) ==
  \/ req.kind \in {"no_code", "code_falsy"}
  \/ req.kind = "code_string" /\ req.code = <<>>

\* main, lines 233-239: json.JSONDecodeError is caught
main_invalid_json ==
  /\ stdout' = Append(stdout, InvalidJsonPayload)
  /\ exit_code' = 1
  /\ pc' = "exited"
  /\ UNCHANGED result

\* main, lines 215-228 and 233-239: read and decode stdin, pick the code.
\* Bytes that are not text make sys.stdin.read() raise UnicodeDecodeError
\* where stdin decodes strictly, and reach json.loads as lone surrogates
\* where stdin decodes with surrogateescape: json.loads rejects them outside
\* a string and takes them as characters of the string inside one.
main_read ==
  /\ pc = "main"
  /\ IF request.kind = "stdin_undecodable"
     THEN \/ /\ pc' = "raise"
             /\ UNCHANGED <<stdout, exit_code, result>>
          \/ main_invalid_json
     ELSE IF request.kind = "code_bytes"
     THEN /\ pc' \in {"raise", "call"}
          /\ UNCHANGED <<stdout, exit_code, result>>
     ELSE IF request.kind = "other_bytes"
     THEN \/ /\ pc' = "raise"
             /\ UNCHANGED <<stdout, exit_code, result>>
          \/ /\ request.code = <<>>
             /\ result' = NoCodePayload
             /\ pc' = "print"
             /\ UNCHANGED <<stdout, exit_code>>
          \/ /\ request.code # <<>>
             /\ pc' = "call"
             /\ UNCHANGED <<stdout, exit_code, result>>
     ELSE IF request.kind = "invalid_json"
     THEN main_invalid_json
     ELSE IF request.kind \in {"json_too_deep", "json_big_int", "not_object"}
     THEN /\ pc' = "raise"
          /\ UNCHANGED <<stdout, exit_code, result>>
     ELSE IF code_is_falsy(request)
     THEN /\ result' = NoCodePayload
          /\ pc' = "print"
          /\ UNCHANGED <<stdout, exit_code>>
     ELSE /\ pc' = "call"
          /\ UNCHANGED <<stdout, exit_code, result>>
  /\ UNCHANGED <<request, code, violations, origin, calls, first, runs>>

\* analyze_swift_code, line 198, and the entry of analyze, line 199
analyze_swift_code_enter ==
  /\ pc = "call"
  /\ LET analyzer == SwiftAnalyzer(code_of(request), violations)
     IN  /\ code' = analyzer.code
         /\ violations' = analyzer.violations
         /\ origin' = analyzer.origin
  /\ calls' = calls + 1
  /\ runs' = [NoRuns EXCEPT !.analyze = 1]
  /\ pc' = "frame"
  /\ UNCHANGED <<request, result, stdout, exit_code, first>>

\* re.finditer raises TypeError when self.code is not a string
step_check_hardcoded_frame_sizes ==
  /\ pc = "frame"
  /\ IF request.kind \in OtherKinds
     THEN Raises
     ELSE Becomes(check_hardcoded_frame_sizes(self), "color")

step_check_hardcoded_colors ==
  /\ pc = "color"
  /\ Becomes(check_hardcoded_colors(self), "font")

step_check_hardcoded_fonts ==
  /\ pc = "font"
  /\ Becomes(check_hardcoded_fonts(self), "unwrap")

step_check_force_unwrapping ==
  /\ pc = "unwrap"
  /\ Becomes(check_force_unwrapping(self), "touch")

\* int() raises ValueError on a size of too many digits, after the matches
\* before it have been dealt with
step_check_touch_target_sizes ==
  /\ pc = "touch"
  /\ IF check_touch_target_sizes_raises(self)
     THEN RaisesWith(check_touch_target_sizes(self))
     ELSE Becomes(check_touch_target_sizes(self), "viewmodel")

step_check_viewmodel_state_enum ==
  /\ pc = "viewmodel"
  /\ Becomes(check_viewmodel_state_enum(self), "access")

step_check_accessibility_labels ==
  /\ pc = "access"
  /\ Becomes(check_accessibility_labels(self), "summary")

\* analyze_swift_code, lines 199-209
analyze_swift_code_return ==
  /\ pc = "summary"
  /\ request.kind \notin InstanceKinds
  /\ result' = analysis_result(violations)
  /\ first' = IF calls = 1 THEN result' ELSE first
  /\ pc' = IF request.kind = "direct" THEN "returned" ELSE "print"
  /\ UNCHANGED <<request, code, violations, origin, stdout, exit_code, calls,
                 runs>>

\* main, line 231
main_print ==
  /\ pc = "print"
  /\ stdout' = Append(stdout, result)
  /\ exit_code' = 0
  /\ pc' = "exited"
  /\ UNCHANGED <<request, code, violations, origin, result, calls, first, runs>>

\* main, lines 241-247
main_except ==
  /\ pc = "raise"
  /\ request.kind \in MainKinds
  /\ stdout' = Append(stdout, AnalysisFailedPayload)
  /\ exit_code' = 1
  /\ pc' = "exited"
  /\ UNCHANGED <<request, code, violations, origin, result, calls, first, runs>>

\* outside main nothing catches the exception: it reaches the caller
raise_to_caller ==
  /\ pc = "raise"
  /\ request.kind \notin MainKinds
  /\ pc' = "propagated"
  /\ runs' = [runs EXCEPT !.raised = @ + 1]
  /\ UNCHANGED <<request, code, violations, origin, result, stdout, exit_code,
                 calls, first>>

\* a caller that has caught the exception goes on with its analyzer
caller_continues ==
  /\ pc = "propagated"
  /\ request.kind \in InstanceKinds
  /\ pc' = "idle"
  /\ UNCHANGED <<request, code, violations, origin, result, stdout, exit_code,
                 calls, first, runs>>

\* a direct caller calls analyze_swift_code again on the same text
call_again ==
  /\ pc = "returned"
  /\ calls < MaxCalls
  /\ pc' = "call"
  /\ UNCHANGED <<request, code, violations, origin, result, stdout, exit_code,
                 calls, first, runs>>

\* a caller makes an analyzer of its own: SwiftAnalyzer(code)
new_analyzer ==
  /\ pc = "new"
  /\ LET analyzer == SwiftAnalyzer(code_of(request), violations)
     IN  /\ code' = analyzer.code
         /\ violations' = analyzer.violations
         /\ origin' = analyzer.origin
  /\ pc' = "idle"
  /\ UNCHANGED <<request, result, stdout, exit_code, calls, first, runs>>

\* the caller calls analyze() on its analyzer, for the first time or again:
\* the list is not emptied
analyze_enter ==
  /\ pc = "idle"
  /\ runs.analyze + runs.other < MaxCalls
  /\ runs' = [runs EXCEPT !.analyze = @ + 1]
  /\ pc' = "frame"
  /\ UNCHANGED <<request, code, violations, origin, result, stdout, exit_code,
                 calls, first>>

\* what analyze returns: self.violations, the list itself and no copy of
\* it, so that what the caller holds is at every time what violations is
SelfViolations == [status |-> "self.violations"]

\* analyze, line 31
analyze_return ==
  /\ pc = "summary"
  /\ request.kind \in InstanceKinds
  /\ result' = SelfViolations
  /\ first' = IF first = NoResult
              THEN [status |-> "list", violations |-> violations]
              ELSE first
  /\ pc' = "idle"
  /\ UNCHANGED <<request, code, violations, origin, stdout, exit_code, calls,
                 runs>>

\* the methods analyze calls, in its order
CheckMethods ==
  << "check_hardcoded_frame_sizes", "check_hardcoded_colors",
     "check_hardcoded_fonts", "check_force_unwrapping",
     "check_touch_target_sizes", "check_viewmodel_state_enum",
     "check_accessibility_labels" >>

\* the analyzer after the check method of that name
CheckBy(method, analyzer) ==
  CASE method = "check_hardcoded_frame_sizes" -> check_hardcoded_frame_sizes(analyzer)
    [] method = "check_hardcoded_colors"      -> check_hardcoded_colors(analyzer)
    [] method = "check_hardcoded_fonts"       -> check_hardcoded_fonts(analyzer)
    [] method = "check_force_unwrapping"      -> check_force_unwrapping(analyzer)
    [] method = "check_touch_target_sizes"    -> check_touch_target_sizes(analyzer)
    [] method = "check_viewmodel_state_enum"  -> check_viewmodel_state_enum(analyzer)
    [] method = "check_accessibility_labels"  -> check_accessibility_labels(analyzer)

\* the caller calls one check method of its analyzer, any of them; on a code
\* that is not a string re.finditer or re.search raises TypeError, and
\* check_touch_target_sizes raises as it does inside analyze
call_check ==
  /\ pc = "idle"
  /\ runs.analyze + runs.other < MaxCalls
  /\ runs' = [runs EXCEPT !.other = @ + 1]
  /\ \E n \in 1..Len(CheckMethods) :
       /\ IF request.kind \in OtherKinds
          THEN /\ pc' = "raise"
               /\ UNCHANGED <<violations, origin>>
          ELSE IF CheckMethods[n] = "check_touch_target_sizes"
                  /\ check_touch_target_sizes_raises(self)
          THEN /\ violations' = check_touch_target_sizes(self).violations
               /\ origin' = check_touch_target_sizes(self).origin
               /\ pc' = "raise"
          ELSE /\ violations' = CheckBy(CheckMethods[n], self).violations
               /\ origin' = CheckBy(CheckMethods[n], self).origin
               /\ pc' = "idle"
  /\ UNCHANGED <<request, code, result, stdout, exit_code, calls, first>>

\* the caller calls add_violation itself, with a severity and a rule of its
\* own choice
call_add_violation ==
  /\ pc = "idle"
  /\ runs.analyze + runs.other < MaxCalls
  /\ \E severity \in {"warning", "info"} :
       LET after == add_violation(self, severity, "custom", <<"message">>, <<>>, 0, -1)
       IN  /\ violations' = after.violations
           /\ origin' = after.origin
  /\ runs' = [runs EXCEPT !.other = @ + 1]
  /\ UNCHANGED <<request, pc, code, result, stdout, exit_code, calls, first>>

Next ==
  \/ main_read
  \/ analyze_swift_code_enter
  \/ step_check_hardcoded_frame_sizes
  \/ step_check_hardcoded_colors
  \/ step_check_hardcoded_fonts
  \/ step_check_force_unwrapping
  \/ step_check_touch_target_sizes
  \/ step_check_viewmodel_state_enum
  \/ step_check_accessibility_labels
  \/ analyze_swift_code_return
  \/ main_print
  \/ main_except
  \/ raise_to_caller
  \/ caller_continues
  \/ call_again
  \/ new_analyzer
  \/ analyze_enter
  \/ analyze_return
  \/ call_check
  \/ call_add_violation

Spec == Init /\ [][Next]_vars

InitUnwrap == InitOver(TextsOver(FragsUnwrap))
SpecUnwrap == InitUnwrap /\ [][Next]_vars

InitTouch == InitOver(TextsOver(FragsTouch))
SpecTouch == InitTouch /\ [][Next]_vars

InitViewModel == InitOver(TextsOver(FragsViewModel))
SpecViewModel == InitViewModel /\ [][Next]_vars

InitAccess == InitOver(TextsOver(FragsAccess))
SpecAccess == InitAccess /\ [][Next]_vars

(***************************************************************************)
(* Properties.                                                             *)
(***************************************************************************)
\* the violations of one rule made from the match at offset p
HitsAt(rule, p) ==
  {n \in 1..Len(origin) : origin[n].rule = rule /\ origin[n].start = p}

\* the violations of one rule
HitsOf(rule) == {n \in 1..Len(violations) : violations[n].rule = rule}

\* the position of a rule in the order of the checks
RankOf(rule) == CHOOSE r \in 1..Len(RuleOrder) : RuleOrder[r] = rule

Severities == {"error", "warning"}

\* the list at hand is that of one run of analyze on a new analyzer, which is
\* what analyze_swift_code runs
OneRun == runs = [analyze |-> 1, other |-> 0, raised |-> 0]

\* C1: in every result of analyze_swift_code, summary.total is the length of
\* the violations list and summary.errors + summary.warnings is summary.total:
\* every violation a check appends has severity "error" or "warning".
C1_SummaryConsistent ==
  /\ \A n \in 1..Len(violations) :
       origin[n].rule \in {RuleOrder[r] : r \in 1..Len(RuleOrder)} =>
         violations[n].severity \in Severities
  /\ result.status = "success" =>
       /\ result.summary.total = Len(result.violations)
       /\ result.summary.errors + result.summary.warnings = result.summary.total

\* a result that counts errors as well as warnings
C1_Witness ==
  /\ result.status = "success"
  /\ result.summary.errors > 0
  /\ result.summary.warnings > 0

\* the offsets at which s occurs in the code
Occurrences(s) == {p \in 0..(Len(code) - Len(s)) : StartsWith(code, p, s)}

\* no newline in code[a:b]
SameLine(a, b) == \A j \in a..(b - 1) : code[j + 1] # "\n"

\* a '//' begins before offset p on the line of p
CommentBefore(p) ==
  \E q \in Occurrences(<<"/","/">>) : q < p /\ SameLine(q, p)

\* the '!' at offset p is not behind 'try' and not in front of '='
Qualifies(p) ==
  /\ ~StartsWith(code, p - 3, <<"t","r","y">>)
  /\ ~StartsWith(code, p + 1, <<"=">>)

UnwrapChecked == OneRun /\ pc \in {"touch", "viewmodel", "access", "summary", "returned"}

\* C3: a '!' that qualifies as a force unwrap is reported if and only if no
\* '//' begins before it on its own line, and then once, at its line; a '//'
\* on another line does not suppress it.
C3_CommentSuppression ==
  UnwrapChecked =>
    \A p \in Occurrences(<<"!">>) :
      Qualifies(p) =>
        /\ Cardinality(HitsAt("force_unwrapping", p)) = IF CommentBefore(p) THEN 0 ELSE 1
        /\ \A n \in HitsAt("force_unwrapping", p) :
             violations[n].line = LineOf(code, p)

\* a force unwrap behind a '//' of its line was passed over while one on a
\* line of its own behind a commented line was reported
C3_Witness ==
  /\ UnwrapChecked
  /\ \E p \in Occurrences(<<"!">>) :
       Qualifies(p) /\ CommentBefore(p) /\ HitsAt("force_unwrapping", p) = {}
  /\ \E p \in Occurrences(<<"!">>), q \in Occurrences(<<"/","/">>) :
       q < p /\ ~SameLine(q, p) /\ HitsAt("force_unwrapping", p) # {}

\* C4: outside comments every '!' that is neither behind 'try' nor in front
\* of '=' is reported once, as an error, and no other '!' and no other offset
\* is reported.
C4_ForceUnwrapExactly ==
  UnwrapChecked =>
    /\ \A p \in Occurrences(<<"!">>) :
         ~CommentBefore(p) =>
           Cardinality(HitsAt("force_unwrapping", p)) = IF Qualifies(p) THEN 1 ELSE 0
    /\ \A n \in HitsOf("force_unwrapping") :
         /\ violations[n].severity = "error"
         /\ origin[n].start \in Occurrences(<<"!">>)
         /\ Qualifies(origin[n].start)

\* a '!' behind 'try' or in front of '=' was passed over and a plain '!' was reported
C4_Witness ==
  /\ UnwrapChecked
  /\ \E p \in Occurrences(<<"!">>) :
       ~CommentBefore(p) /\ ~Qualifies(p) /\ HitsAt("force_unwrapping", p) = {}
  /\ \E p \in Occurrences(<<"!">>) :
       ~CommentBefore(p) /\ Qualifies(p) /\ HitsAt("force_unwrapping", p) # {}

\* input that main cannot decode into a request
Undecodable == {"stdin_undecodable", "invalid_json", "json_too_deep", "json_big_int"}

\* C5: main emits exactly one payload, and which one is decided by the
\* request: no or empty code gives the "No Swift code" error and exit status
\* 0, input that cannot be decoded as a request gives "Invalid JSON input" and
\* exit status 1, any other failure gives "Analysis failed" with exit status 1
\* and no violations list, and only a non-empty code string that is analyzed
\* without fault gives "success".
C5_ResponseClasses ==
  /\ Len(stdout) <= 1
  /\ pc = "exited" =>
       /\ Len(stdout) = 1
       /\ (request.kind = "no_code" \/ (request.kind = "code_string" /\ request.code = <<>>)) =>
            /\ stdout[1] = NoCodePayload
            /\ exit_code = 0
       /\ request.kind \in Undecodable =>
            /\ stdout[1].status = "error"
            /\ stdout[1].message[1] = "Invalid JSON input: "
            /\ exit_code = 1
       /\ request.kind \in {"not_object", "code_other"} =>
            /\ stdout[1].status = "error"
            /\ stdout[1].message[1] = "Analysis failed: "
            /\ "violations" \notin DOMAIN stdout[1]
            /\ exit_code = 1
       /\ stdout[1].status = "success" =>
            /\ request.kind \in {"code_string", "code_bytes", "other_bytes"}
  /\ (pc = "returned" /\ calls >= 2) => result = first
  /\ (pc = "idle" /\ runs.analyze >= 2 /\ runs.other = 0 /\ runs.raised = 0) =>
       violations = first.violations
  /\ (pc = "frame" /\ runs.other = 0) => violations = <<>>

\* C7 as claimed: violations are ordered by rule and, within a rule, by the
\* start offset of the match (so the lines of a rule never decrease).
C7_OrderedByRuleThenOffset ==
  OneRun =>
    \A m, n \in 1..Len(violations) :
      m < n =>
        /\ RankOf(violations[m].rule) <= RankOf(violations[n].rule)
        /\ violations[m].rule = violations[n].rule =>
             /\ origin[m].start <= origin[n].start
             /\ violations[m].line <= violations[n].line

\* C7 amended: in the list of one run of analyze on a new analyzer, which is
\* the list analyze_swift_code returns, violations are ordered by rule,
\* within a rule by the pattern of the rule that matched (in the order the
\* check scans its patterns), and within a pattern by increasing start offset
\* of the match, so that the lines of one pattern never decrease.
C7_OrderedByRulePatternOffset ==
  /\ Len(origin) = Len(violations)
  /\ OneRun =>
       \A m, n \in 1..Len(violations) :
         m < n =>
           /\ origin[m].rule = violations[m].rule
           /\ RankOf(violations[m].rule) <= RankOf(violations[n].rule)
           /\ violations[m].rule = violations[n].rule =>
                /\ origin[m].pat <= origin[n].pat
                /\ origin[m].pat = origin[n].pat =>
                     /\ origin[m].start < origin[n].start
                     /\ violations[m].line <= violations[n].line

\* two violations of one rule, the later one from an earlier line, beside two
\* of one pattern in the order of their offsets
C7_Witness ==
  /\ pc = "summary"
  /\ OneRun
  /\ \E m, n \in 1..Len(violations) :
       /\ m < n
       /\ violations[m].rule = violations[n].rule
       /\ origin[m].pat < origin[n].pat
       /\ violations[m].line > violations[n].line
  /\ \E m, n \in 1..Len(violations) :
       /\ m < n
       /\ origin[m].rule = origin[n].rule
       /\ origin[m].pat = origin[n].pat

(***************************************************************************)
(* The touch-target rule, stated on the text.                              *)
(***************************************************************************)
\* the offset behind the white space that begins at i
SkipSpace(i) == i + RunLen("s", code, i)

\* at offset e stands width: N) or height: N)
SizedKeyAt(e) ==
  \E key \in {<<"w","i","d","t","h">>, <<"h","e","i","g","h","t">>} :
    /\ StartsWith(code, e, key \o <<":">>)
    /\ LET s == SkipSpace(e + Len(key) + 1)
           n == RunLen("d", code, s)
       IN  n >= 1 /\ StartsWith(code, s + n, <<")">>)

\* where the number of the key at e begins, and how many digits it has
NumberAt(e) ==
  LET key == IF StartsWith(code, e, <<"w","i","d","t","h">>) THEN <<"w","i","d","t","h">> ELSE <<"h","e","i","g","h","t">>
      s == SkipSpace(e + Len(key) + 1)
  IN  [from |-> s, digits |-> RunLen("d", code, s)]

\* the sized keys of the directive .frame( at offset d, all on its line
KeysOf(d) == {e \in (d + 7)..Len(code) : SameLine(d + 7, e) /\ SizedKeyAt(e)}

\* a .frame( directive with a literal width or height begins at offset d
DirectiveAt(d) == StartsWith(code, d, <<".","f","r","a","m","e","(">>) /\ KeysOf(d) # {}

\* the digits of the size the directive at d gives
SizeOf(d) ==
  LET num == NumberAt(MinOf(KeysOf(d)))
  IN  Slice(code, num.from, num.from + num.digits)

\* the offset behind the ')' of the directive at d
EndOf(d) ==
  LET num == NumberAt(MinOf(KeysOf(d))) IN num.from + num.digits + 1

\* the ')' of Button( at p: on the line of p and followed, white space apart, by '{'
ParensOf(p) ==
  {a \in (p + 7)..(Len(code) - 1) :
     /\ code[a + 1] = ")"
     /\ SameLine(p + 7, a)
     /\ StartsWith(code, SkipSpace(a + 1), <<"{">>)}

\* the '{' that opens the body of the control at p
BraceOf(p) == SkipSpace(MinOf(ParensOf(p)) + 1)

\* the '}' behind the opening brace of the control at p
ClosesOf(p) == {c \in Occurrences(<<"}">>) : c > BraceOf(p)}

\* the directives behind the first '}' of the control at p
DirectivesBehind(p) ==
  {d \in Occurrences(<<".","f","r","a","m","e","(">>) : d > MinOf(ClosesOf(p)) /\ DirectiveAt(d)}

\* a control Button(...) { ... } begins at p and a directive follows its first '}'
ControlWithDirective(p) ==
  /\ StartsWith(code, p, <<"B","u","t","t","o","n","(">>)
  /\ ParensOf(p) # {}
  /\ ClosesOf(p) # {}
  /\ DirectivesBehind(p) # {}

\* the controls examined from offset i on, each with the first directive
\* behind its first '}'; a control that begins before the end of the
\* directive of an examined control is not examined itself
RECURSIVE ExaminedFrom(_)
ExaminedFrom(i) ==
  LET ps == {p \in i..Len(code) : ControlWithDirective(p)}
  IN  IF ps = {} THEN {}
      ELSE LET p == MinOf(ps)
               d == MinOf(DirectivesBehind(p))
           IN  {[start |-> p, size |-> SizeOf(d)]} \cup ExaminedFrom(EndOf(d))

TouchChecked == OneRun /\ pc \in {"viewmodel", "access", "summary", "returned"}

\* C2 amended: scanning from the left, every control Button(...) { that does
\* not begin inside an earlier examined span and whose first '}' is followed
\* by a directive .frame(... width|height: N) is examined with the N of the
\* first such directive: it is reported once, as an error with N in the
\* message and the line of the control, if N < 44 and not at all if N >= 44;
\* nothing else is reported (a directive inside the body, before that '}',
\* is not looked at).
C2_TouchTargetAfterBody ==
  TouchChecked =>
    /\ \A x \in ExaminedFrom(0) :
         /\ Cardinality(HitsAt("touch_target_too_small", x.start)) =
              IF IntLess(x.size, 44) THEN 1 ELSE 0
         /\ \A n \in HitsAt("touch_target_too_small", x.start) :
              /\ violations[n].severity = "error"
              /\ violations[n].message[2] = Numeral(x.size)
              /\ violations[n].line = LineOf(code, x.start)
    /\ \A n \in HitsOf("touch_target_too_small") :
         \E x \in ExaminedFrom(0) : origin[n].start = x.start

\* the '}' that closes the body of the control at p, braces balanced
BalancedCloseOf(p) == brace_scan(code, BraceOf(p)).button_end

\* the sizes of the directives inside the brace-delimited body of the control at p
BodySizes(p) ==
  {SizeOf(d) : d \in {d \in Occurrences(<<".","f","r","a","m","e","(">>) :
                        /\ d > BraceOf(p)
                        /\ DirectiveAt(d)
                        /\ EndOf(d) <= BalancedCloseOf(p)}}

\* a control Button(...) { ... } with a closed body begins at p
ClosedControl(p) ==
  /\ StartsWith(code, p, <<"B","u","t","t","o","n","(">>)
  /\ ParensOf(p) # {}
  /\ brace_scan(code, BraceOf(p)).done

\* C2 as claimed: a control whose body contains a directive with size N is
\* reported once, with N and its line, if N < 44 and not at all if N >= 44.
C2_TouchTargetInBody ==
  TouchChecked =>
    \A p \in Occurrences(<<"B","u","t","t","o","n","(">>) :
      ClosedControl(p) =>
        \A size \in BodySizes(p) :
          /\ Cardinality(HitsAt("touch_target_too_small", p)) =
               IF IntLess(size, 44) THEN 1 ELSE 0
          /\ \A n \in HitsAt("touch_target_too_small", p) :
               /\ violations[n].message[2] = Numeral(size)
               /\ violations[n].line = LineOf(code, p)

\* a control with a directive of less than 44 behind its body was reported,
\* and a second control, which begins inside the span of the first, was not
C2_Witness ==
  /\ TouchChecked
  /\ \E x \in ExaminedFrom(0) :
       /\ IntLess(x.size, 44)
       /\ HitsAt("touch_target_too_small", x.start) # {}
       /\ \E p \in Occurrences(<<"B","u","t","t","o","n","(">>) :
            /\ p > x.start
            /\ ClosedControl(p)
            /\ HitsAt("touch_target_too_small", p) = {}

(***************************************************************************)
(* The ViewModel rule and the accessibility rule, stated on the text.      *)
(***************************************************************************)
\* a class is declared whose name, the whole identifier, ends in ViewModel
DeclaresViewModelType ==
  \E p \in Occurrences(<<"c","l","a","s","s">>) :
    LET name_at == SkipSpace(p + 5)
        name_len == RunLen("w", code, name_at)
    IN  /\ name_at > p + 5
        /\ name_len >= 9
        /\ StartsWith(code, name_at + name_len - 9, <<"V","i","e","w","M","o","d","e","l">>)

\* enum State { with any white space between the words
DeclaresStateEnum ==
  \E p \in Occurrences(<<"e","n","u","m">>) :
    /\ SkipSpace(p + 4) > p + 4
    /\ StartsWith(code, SkipSpace(p + 4), <<"S","t","a","t","e">>)
    /\ StartsWith(code, SkipSpace(SkipSpace(p + 4) + 5), <<"{">>)

ViewModelChecked == OneRun /\ pc \in {"access", "summary", "returned"}

\* C8: missing_viewmodel_state is reported at most once, as a warning without
\* a line, and if and only if the text declares a type whose name ends in
\* ViewModel and holds no enum State { declaration.
C8_ViewModelState ==
  ViewModelChecked =>
    /\ Cardinality(HitsOf("missing_viewmodel_state")) <= 1
    /\ \A n \in HitsOf("missing_viewmodel_state") :
         /\ violations[n].severity = "warning"
         /\ "line" \notin DOMAIN violations[n]
    /\ HitsOf("missing_viewmodel_state") # {} <=>
         (DeclaresViewModelType /\ ~DeclaresStateEnum)

\* opening minus closing braces in code[start : j + 1]
DepthAt(start, j) ==
  Cardinality({i \in start..j : code[i + 1] = "{"})
  - Cardinality({i \in start..j : code[i + 1] = "}"})

\* the '}' behind start at which the depth is back at zero, a '{' seen before
ClosersOf(start) ==
  {j \in Occurrences(<<"}">>) :
     /\ j >= start
     /\ DepthAt(start, j) = 0
     /\ \E i \in start..(j - 1) : code[i + 1] = "{"}

AccessChecked == OneRun /\ pc \in {"summary", "returned"}

\* C9: the scan from a Button( visits at most len(text) - start characters,
\* ends at the first '}' at which the depth is back at zero after a '{', and
\* when the text ends first the span examined runs to the end of the text.
C9_BraceScan ==
  AccessChecked =>
    \A start \in Occurrences(<<"B","u","t","t","o","n","(">>) :
      LET st == brace_scan(code, start) IN
      /\ st.visited <= Len(code) - start
      /\ ClosersOf(start) # {} =>
           st.done /\ st.button_end = MinOf(ClosersOf(start))
      /\ ClosersOf(start) = {} =>
           snippet_of(code, start) = Slice(code, start, Len(code))

\* C10: a Button( with a closed body is reported once, at its line, if and
\* only if the body, up to the closing brace, holds Image( and neither the
\* body nor the window behind it holds .accessibilityLabel; an Image( behind
\* the closing brace does not count.
C10_ImageInBody ==
  AccessChecked =>
    \A p \in Occurrences(<<"B","u","t","t","o","n","(">>) :
      LET st == brace_scan(code, p)
          body == Slice(code, p, st.button_end + 1)
      IN  st.done =>
            /\ Cardinality(HitsAt("missing_accessibility_label", p)) =
                 IF /\ Contains(body, <<"I","m","a","g","e","(">>)
                    /\ ~Contains(snippet_of(code, p), <<".","a","c","c","e","s","s","i","b","i","l","i","t","y","L","a","b","e","l">>)
                 THEN 1 ELSE 0
            /\ \A n \in HitsAt("missing_accessibility_label", p) :
                 /\ violations[n].severity = "warning"
                 /\ violations[n].line = LineOf(code, p)

====
